---- MODULE Spec2Model ----
(***************************************************************************)
(* Model of the gesture recogniser of aegis-gesture-control                *)
(* (src/backend/gesture_recognizer.py, thresholds of src/backend/config.py)*)
(* and of its host: the capture thread (camera_capture.py), the main     *)
(* loop (main.py) and the heartbeat of websocket_server.py.               *)
(*                                                                         *)
(* Numbers are fixed point: coordinates, distances, tilts, velocities and  *)
(* magnitudes are in thousandths (0.015 is 15), angles in milliradians,    *)
(* time in milliseconds.  The wall clock never runs backwards and one call *)
(* of update reads it once.                                                *)
(***************************************************************************)
EXTENDS Integers, Sequences, FiniteSets, TLC

\* ---- config.py ----------------------------------------------------------
ZOOM_DIST_RATE_MIN       == 15
SWIPE_VELOCITY_THRESHOLD == 40
SWIPE_MIN_FRAMES         == 3
SMOOTHING_WINDOW         == 5
GESTURE_COOLDOWN_MS      == 80
PITCH_TILT_RATE_MIN      == 30
PITCH_COOLDOWN_MS        == 50
BEARING_ANGLE_RATE_MIN   == 60
BEARING_COOLDOWN_MS      == 50
ACTIVATION_ZONE          == <<200, 800, 150, 850>>
HEARTBEAT_INTERVAL       == 500
HAND_TIMEOUT_SEC         == 5000

\* ---- gesture_recognizer.py: state constants -----------------------------
STATE_IDLE        == "idle"
STATE_ZOOM        == "zoom"
STATE_SWIPE_LEFT  == "swipe_left"
STATE_SWIPE_RIGHT == "swipe_right"
STATE_PITCH_UP    == "pitch_up"
STATE_PITCH_DOWN  == "pitch_down"
STATE_BEARING_CW  == "bearing_cw"
STATE_BEARING_CCW == "bearing_ccw"

\* ---- math ---------------------------------------------------------------
Pi    == 3142
TwoPi == 6283

Abs(x) == IF x < 0 THEN -x ELSE x
\* Min that never caps
Min_uncapped(a, b) == a
Min(a, b) == IF a <= b THEN a ELSE b

\* x / y rounded to the nearest integer, y > 0 (a float quotient kept at
\* the model's resolution)
DivRound(x, y) == IF x >= 0 THEN (2 * x + y) \div (2 * y)
                            ELSE -((2 * (-x) + y) \div (2 * y))

RECURSIVE SqrtSearch(_, _, _)
SqrtSearch(n, lo, hi) ==
    IF lo >= hi THEN lo
    ELSE LET mid == (lo + hi + 1) \div 2
         IN  IF mid * mid <= n THEN SqrtSearch(n, mid, hi)
                               ELSE SqrtSearch(n, lo, mid - 1)

\* math.hypot at the model's resolution
Hypot(dx, dy) == SqrtSearch(dx * dx + dy * dy, 0, 1500)

\* math.atan2 in milliradians, tabulated on the wrist->middle_mcp vectors
\* the frames of the model use
Atan2(dy, dx) ==
    CASE dx =  100 /\ dy =    0 -> 0
      [] dx =  100 /\ dy =   10 -> 100
      [] dx =  100 /\ dy =  -10 -> -100
      [] dx =    0 /\ dy =  100 -> 1571
      [] dx =    0 /\ dy = -100 -> -1571
      [] dx = -100 /\ dy =   14 -> 3003
      [] dx = -100 /\ dy =    4 -> 3102
      [] dx = -100 /\ dy =   -4 -> -3102
      [] dx = -100 /\ dy =  -14 -> -3003

\* Round3 that truncates instead of rounding to the nearest thousandth
Round3_truncate(num, den) == (num * 1000) \div den

\* round(x, 3) of a quotient num / den, in thousandths
Round3(num, den) == DivRound(num * 1000, den)

\* ---- bounds of the model ------------------------------------------------
EpochStart == 100        \* clock at construction (time.time() is far from 0)
MaxElapsed == 180        \* no call is made later than this after construction
MaxTime    == EpochStart + MaxElapsed
MaxElapsedLong == 210    \* the same, for the runs that overfill every buffer
MaxTimeLong    == EpochStart + MaxElapsedLong
Advances   == {30, 50}   \* milliseconds between two calls of update

\* ---- frames -------------------------------------------------------------
WristPos == <<500, 600>>
Flat     == <<100, 0>>   \* wrist->middle_mcp pointing along x
Tilted   == <<100, 10>>  \* the same, rotated by 0.1 rad
Short    == <<0, 0>>     \* a segment shorter than 0.01

Hand(pc, d) ==
    [palm_center |-> pc,
     landmarks   |-> [wrist      |-> WristPos,
                      middle_mcp |-> <<WristPos[1] + d[1], WristPos[2] + d[2]>>]]

Frame(det, hs) == [detected |-> det, hand_count |-> Len(hs), hands |-> hs]

EmptyResult == Frame(FALSE, <<>>)

NoHandFrames ==
    {EmptyResult, Frame(TRUE, <<>>), Frame(FALSE, <<Hand(<<300, 500>>, Flat)>>)}

SingleHandFrames ==
    {Frame(TRUE, <<Hand(<<400, 500>>, d)>>) : d \in {Flat, Tilted, Short}}
    \cup {Frame(TRUE, <<Hand(<<300, 500>>, Flat)>>),
          Frame(TRUE, <<Hand(<<200, 500>>, Tilted)>>),
          Frame(TRUE, <<Hand(<<800, 500>>, Flat)>>),
          Frame(TRUE, <<Hand(<<100, 500>>, Flat)>>)}

TwoHandFrames ==
    {Frame(TRUE, <<Hand(<<300, 500>>, d), Hand(<<400, 500>>, Flat)>>) :
        d \in {Flat, Tilted}}
    \cup {Frame(TRUE, <<Hand(<<300, 500>>, Flat), Hand(<<420, 500>>, Flat)>>),
          Frame(TRUE, <<Hand(<<300, 500>>, Flat), Hand(<<400, 500>>, Short)>>),
          Frame(TRUE, <<Hand(<<300, 500>>, Flat), Hand(<<600, 900>>, Flat)>>),
          Frame(TRUE, <<Hand(<<100, 500>>, Flat), Hand(<<600, 900>>, Flat)>>),
          Frame(TRUE, <<Hand(<<300, 500>>, Flat), Hand(<<420, 500>>, Flat),
                        Hand(<<500, 500>>, Flat)>>)}

Observations == NoHandFrames \cup SingleHandFrames \cup TwoHandFrames

\* the connections a run of the server sees, and its two sources of
\* broadcasts: the main loop (through broadcast) and the heartbeat loop
Connections == {"ws1", "ws2", "ws3"}
Broadcasts  == {"main", "heartbeat"}

\* ---- state --------------------------------------------------------------
VARIABLES
    state,               \* self._state
    dist_buf,            \* self._dist_buf
    palm_buf,            \* self._palm_buf
    tilt_buf,            \* self._tilt_buf
    angle_buf,           \* self._angle_buf
    swipe_frames_left,   \* self._swipe_frames_left
    swipe_frames_right,  \* self._swipe_frames_right
    coast_dir,           \* self._coast_dir
    coast_frames,        \* self._coast_frames
    cooldowns,           \* self._cooldowns
    now,                 \* time.time() in ms, as read by the latest call
    hand_data,           \* argument of the latest update call
    ret,                 \* its return value: <<>> is None, <<e>> an event
    emitted_at           \* history: kind -> times of the calls that returned it

\* ---- state of the host: camera thread, main loop, websocket server ----
VARIABLES
    cam_frame,           \* CameraCapture._frame: <<>> is None, <<f>> a frame
    captured,            \* history: number of frames the thread has stored
    last_processed,      \* history: number of the frame update saw last
    last_hand_time,      \* run_camera_loop: last_hand_time
    hand_timeout_sent,   \* run_camera_loop: hand_timeout_sent
    status,              \* send_status call of the latest loop iteration
    outage_statuses,     \* history: disconnected statuses of this outage
                         \* (counted up to MaxCounted)
    handless_since,      \* history: when the latest hand (or the start) was
    period_timeouts,     \* history: hand_timeout statuses since then
    hand_detected,       \* WebSocketServer.hand_detected
    active_gesture,      \* WebSocketServer.active_gesture
    last_gesture_time,   \* WebSocketServer._last_gesture_time
    sg_pending,          \* send_gesture between its two writes: <<msg>>
    sent_gesture,        \* history: the latest message send_gesture sent
    hb_pc,               \* position of _heartbeat_loop
    hb_wake_at,          \* end of its current sleep
    heartbeat_msg        \* the latest heartbeat: <<>> before the first

\* ---- state of the websocket server's client set and its broadcasts ----
VARIABLES
    clients,             \* WebSocketServer._clients
    conn,                \* per connection: none, open, closed (wait_closed
                         \* is over), gone (_handler has returned)
    bc_pc,               \* per _async_broadcast coroutine: its position
    bc_pending,          \* the part of _clients.copy() still to be sent to
    bc_dead,             \* its local set dead
    bc_sent,             \* history: the clients its send succeeded for
    bc_joined            \* history: the clients added while it was sending

recogniser_vars ==
    <<state, dist_buf, palm_buf, tilt_buf, angle_buf, swipe_frames_left,
      swipe_frames_right, coast_dir, coast_frames, cooldowns, now,
      hand_data, ret, emitted_at>>

camera_vars == <<cam_frame, captured>>

loop_vars ==
    <<last_processed, last_hand_time, hand_timeout_sent, status,
      outage_statuses, handless_since, period_timeouts>>

server_vars ==
    <<hand_detected, active_gesture, last_gesture_time, sg_pending,
      sent_gesture, hb_pc, hb_wake_at, heartbeat_msg>>

broadcast_vars ==
    <<clients, conn, bc_pc, bc_pending, bc_dead, bc_sent, bc_joined>>

host_vars == <<camera_vars, loop_vars, server_vars, broadcast_vars>>

vars == <<state, dist_buf, palm_buf, tilt_buf, angle_buf, swipe_frames_left,
          swipe_frames_right, coast_dir, coast_frames, cooldowns, now,
          hand_data, ret, emitted_at, host_vars>>

\* the recogniser's fields as one value
Self ==
    [state |-> state, dist_buf |-> dist_buf, palm_buf |-> palm_buf,
     tilt_buf |-> tilt_buf, angle_buf |-> angle_buf,
     swipe_frames_left |-> swipe_frames_left,
     swipe_frames_right |-> swipe_frames_right,
     coast_dir |-> coast_dir, coast_frames |-> coast_frames,
     cooldowns |-> cooldowns]

None == <<>>
Return(s, r) == [self |-> s, ret |-> r]

\* DequeAppend without the eviction of maxlen
DequeAppend_unbounded(buf, x) == Append(buf, x)

\* deque(maxlen=config.SMOOTHING_WINDOW).append
DequeAppend(buf, x) ==
    IF Len(buf) >= SMOOTHING_WINDOW THEN Append(Tail(buf), x)
                                    ELSE Append(buf, x)

Dist2d(a, b) == Hypot(a[1] - b[1], a[2] - b[2])

\* InActivationZone with exclusive bounds
InActivationZone_exclusive(palm_center) ==
    /\ ACTIVATION_ZONE[1] < palm_center[1]
    /\ palm_center[1] < ACTIVATION_ZONE[2]
    /\ ACTIVATION_ZONE[3] < palm_center[2]
    /\ palm_center[2] < ACTIVATION_ZONE[4]

InActivationZone(palm_center) ==
    LET x == palm_center[1]
        y == palm_center[2]
    IN  /\ ACTIVATION_ZONE[1] <= x /\ x <= ACTIVATION_ZONE[2]
        /\ ACTIVATION_ZONE[3] <= y /\ y <= ACTIVATION_ZONE[4]

CooldownOf(gesture) ==
    IF gesture \in {"pitch_up", "pitch_down"} THEN PITCH_COOLDOWN_MS
    ELSE IF gesture \in {"bearing_cw", "bearing_ccw"} THEN BEARING_COOLDOWN_MS
    ELSE GESTURE_COOLDOWN_MS

\* self._cooldowns.get(gesture, 0.0)
LastEmit(cd, gesture) == IF gesture \in DOMAIN cd THEN cd[gesture] ELSE 0

\* CanEmit with the gate left open
CanEmit_open(s, gesture, t) == TRUE

\* CanEmit with > in place of >=
CanEmit_strict(s, gesture, t) ==
    t - LastEmit(s.cooldowns, gesture) > CooldownOf(gesture)

\* CanEmit with one timestamp shared by all kinds
CanEmit_shared(s, gesture, t) ==
    \A k \in DOMAIN s.cooldowns : t - s.cooldowns[k] >= CooldownOf(gesture)

CanEmit(s, gesture, t) ==
    t - LastEmit(s.cooldowns, gesture) >= CooldownOf(gesture)

\* RecordEmit that keeps only the entry it writes
RecordEmit_only(s, gesture, t) ==
    [s EXCEPT !.cooldowns = [k \in {gesture} |-> t]]

RecordEmit(s, gesture, t) ==
    [s EXCEPT !.cooldowns =
        [k \in DOMAIN s.cooldowns \cup {gesture} |->
            IF k = gesture THEN t ELSE s.cooldowns[k]]]

\* ResetBuffers that also empties the cooldown table
ResetBuffers_andCooldowns(s) ==
    [s EXCEPT !.dist_buf = <<>>, !.palm_buf = <<>>, !.tilt_buf = <<>>,
              !.angle_buf = <<>>, !.swipe_frames_left = 0,
              !.swipe_frames_right = 0, !.coast_dir = 0, !.coast_frames = 0,
              !.cooldowns = <<>>]

\* ResetBuffers that forgets the angle buffer and the counters
ResetBuffers_partial(s) ==
    [s EXCEPT !.dist_buf = <<>>, !.palm_buf = <<>>, !.tilt_buf = <<>>,
              !.coast_dir = 0, !.coast_frames = 0]

ResetBuffers(s) ==
    [s EXCEPT !.dist_buf = <<>>, !.palm_buf = <<>>, !.tilt_buf = <<>>,
              !.angle_buf = <<>>, !.swipe_frames_left = 0,
              !.swipe_frames_right = 0, !.coast_dir = 0, !.coast_frames = 0]

\* the value of a rolling buffer's window: newest minus oldest
WindowRate(buf) == buf[Len(buf)] - buf[1]

\* HandNormDy that reports a level hand when the segment is too short
HandNormDy_level(hand) ==
    LET dx == hand.landmarks.middle_mcp[1] - hand.landmarks.wrist[1]
        dy == hand.landmarks.middle_mcp[2] - hand.landmarks.wrist[2]
        length == Hypot(dx, dy)
    IN  IF length >= 10 THEN <<DivRound(dy * 1000, length)>> ELSE <<0>>

\* <<>> when the segment is shorter than 0.01, else <<dy / length>>
HandNormDy(hand) ==
    LET dx == hand.landmarks.middle_mcp[1] - hand.landmarks.wrist[1]
        dy == hand.landmarks.middle_mcp[2] - hand.landmarks.wrist[2]
        length == Hypot(dx, dy)
    IN  IF length >= 10 THEN <<DivRound(dy * 1000, length)>> ELSE None

\* PitchDetected that accepts every tilt rate
PitchDetected_any(tilt_rate) == TRUE

\* the tilt-rate threshold of _eval_two_hand_pitch
PitchDetected(tilt_rate) == Abs(tilt_rate) >= PITCH_TILT_RATE_MIN

EvalTwoHandPitch(s, t) ==
    IF Len(s.tilt_buf) < 2 THEN Return(s, None)
    ELSE
    LET tilt_rate == WindowRate(s.tilt_buf) IN
    IF ~PitchDetected(tilt_rate) THEN Return(s, None)
    ELSE
    LET gesture   == IF tilt_rate < 0 THEN "pitch_up" ELSE "pitch_down"
        intensity == Min(Round3(Abs(tilt_rate), 300), 1000)
        s1 == [s EXCEPT !.state = IF gesture = "pitch_up"
                                  THEN STATE_PITCH_UP ELSE STATE_PITCH_DOWN]
    IN  IF ~CanEmit(s1, gesture, t) THEN Return(s1, None)
        ELSE Return(RecordEmit(s1, gesture, t),
                    <<[gesture |-> gesture, intensity |-> intensity]>>)

\* ClearSingleHand that keeps the palm-position buffer
ClearSingleHand_keepPalm(s) ==
    [s EXCEPT !.angle_buf = <<>>,
              !.swipe_frames_left = 0, !.swipe_frames_right = 0]

\* "Reset single-hand state" at the head of _eval_two_hand
ClearSingleHand(s) ==
    [s EXCEPT !.palm_buf = <<>>, !.angle_buf = <<>>,
              !.swipe_frames_left = 0, !.swipe_frames_right = 0]

\* ZoomDetected that never fires, so that pitch is always evaluated
ZoomDetected_never(dist_rate) == FALSE

\* "Zoom takes priority when distance is changing significantly"
ZoomDetected(dist_rate) == Abs(dist_rate) >= ZOOM_DIST_RATE_MIN

\* TwoHandOutOfZone that falls back to idle as the one-hand exit does
TwoHandOutOfZone_idle(s) ==
    Return([s EXCEPT !.dist_buf = <<>>, !.tilt_buf = <<>>,
                     !.state = STATE_IDLE], None)

\* the exit of _eval_two_hand when neither palm is in the activation zone
TwoHandOutOfZone(s) ==
    Return([s EXCEPT !.dist_buf = <<>>, !.tilt_buf = <<>>], None)

EvalTwoHand(s, hand_a, hand_b, t) ==
    LET s1 == ClearSingleHand(s)
        pc_a == hand_a.palm_center
        pc_b == hand_b.palm_center
    IN
    IF ~InActivationZone(pc_a) /\ ~InActivationZone(pc_b)
    THEN TwoHandOutOfZone(s1)
    ELSE
    LET ndy_a == HandNormDy(hand_a)
        ndy_b == HandNormDy(hand_b)
        s2 == [s1 EXCEPT !.dist_buf = DequeAppend(@, Dist2d(pc_a, pc_b))]
        s3 == IF ndy_a # None /\ ndy_b # None
              THEN [s2 EXCEPT !.tilt_buf =
                       DequeAppend(@, DivRound(ndy_a[1] + ndy_b[1], 2))]
              ELSE s2
    IN
    IF Len(s3.dist_buf) < 2 THEN Return(s3, None)
    ELSE
    LET dist_rate == WindowRate(s3.dist_buf) IN
    IF ZoomDetected(dist_rate)
    THEN LET s4 == [s3 EXCEPT !.state = STATE_ZOOM]
             gesture   == IF dist_rate > 0 THEN "zoom_out" ELSE "zoom_in"
             intensity == Min(Round3(Abs(dist_rate), 300), 1000)
         IN  IF ~CanEmit(s4, gesture, t) THEN Return(s4, None)
             ELSE Return(RecordEmit(s4, gesture, t),
                         <<[gesture |-> gesture, intensity |-> intensity]>>)
    ELSE EvalTwoHandPitch(s3, t)

\* one confirmed direction of _eval_swipe: gate, record, state, event
SwipeConfirmed(s, gesture, st, velocity, t) ==
    IF ~CanEmit(s, gesture, t) THEN Return(s, None)
    ELSE Return([RecordEmit(s, gesture, t) EXCEPT !.state = st],
                <<[gesture |-> gesture, velocity |-> Abs(velocity)]>>)

\* CountSwipe that leaves the counter of the other direction alone
CountSwipe_keepOther(s, velocity) ==
    IF velocity < -SWIPE_VELOCITY_THRESHOLD
    THEN [s EXCEPT !.swipe_frames_left = @ + 1]
    ELSE IF velocity > SWIPE_VELOCITY_THRESHOLD
    THEN [s EXCEPT !.swipe_frames_right = @ + 1]
    ELSE [s EXCEPT !.swipe_frames_left = 0, !.swipe_frames_right = 0]

\* CountSwipe that lets the counter of the other direction run down by one
\* per frame
CountSwipe_decay(s, velocity) ==
    IF velocity < -SWIPE_VELOCITY_THRESHOLD
    THEN [s EXCEPT !.swipe_frames_left = @ + 1, !.swipe_frames_right = @ - 1]
    ELSE IF velocity > SWIPE_VELOCITY_THRESHOLD
    THEN [s EXCEPT !.swipe_frames_right = @ + 1, !.swipe_frames_left = @ - 1]
    ELSE [s EXCEPT !.swipe_frames_left = 0, !.swipe_frames_right = 0]

\* the consecutive-frame counters at the head of _eval_swipe
CountSwipe(s, velocity) ==
    IF velocity < -SWIPE_VELOCITY_THRESHOLD
    THEN [s EXCEPT !.swipe_frames_left = @ + 1, !.swipe_frames_right = 0]
    ELSE IF velocity > SWIPE_VELOCITY_THRESHOLD
    THEN [s EXCEPT !.swipe_frames_right = @ + 1, !.swipe_frames_left = 0]
    ELSE [s EXCEPT !.swipe_frames_left = 0, !.swipe_frames_right = 0]

\* EvalSwipe with the coasting of the comment in __init__: while the state is
\* a swipe, a frame below the threshold keeps returning that pan
EvalSwipe_coast(s, velocity, t) ==
    LET s1 == CountSwipe(s, velocity) IN
    IF velocity >= -SWIPE_VELOCITY_THRESHOLD
       /\ velocity <= SWIPE_VELOCITY_THRESHOLD
    THEN IF s.state = STATE_SWIPE_LEFT
         THEN SwipeConfirmed(s1, "pan_left", STATE_SWIPE_LEFT, velocity, t)
         ELSE IF s.state = STATE_SWIPE_RIGHT
         THEN SwipeConfirmed(s1, "pan_right", STATE_SWIPE_RIGHT, velocity, t)
         ELSE Return(s1, None)
    ELSE IF s1.swipe_frames_left >= SWIPE_MIN_FRAMES
    THEN SwipeConfirmed(s1, "pan_left", STATE_SWIPE_LEFT, velocity, t)
    ELSE IF s1.swipe_frames_right >= SWIPE_MIN_FRAMES
    THEN SwipeConfirmed(s1, "pan_right", STATE_SWIPE_RIGHT, velocity, t)
    ELSE Return(s1, None)

EvalSwipe(s, velocity, t) ==
    LET s1 == CountSwipe(s, velocity) IN
    IF velocity >= -SWIPE_VELOCITY_THRESHOLD
       /\ velocity <= SWIPE_VELOCITY_THRESHOLD
    THEN Return(s1, None)
    ELSE IF s1.swipe_frames_left >= SWIPE_MIN_FRAMES
    THEN SwipeConfirmed(s1, "pan_left", STATE_SWIPE_LEFT, velocity, t)
    ELSE IF s1.swipe_frames_right >= SWIPE_MIN_FRAMES
    THEN SwipeConfirmed(s1, "pan_right", STATE_SWIPE_RIGHT, velocity, t)
    ELSE Return(s1, None)

\* UnwrapDelta that sums the raw deltas
UnwrapDelta_raw(d) == d

\* one unwrapped delta of the loop of _eval_bearing
UnwrapDelta(d) == IF d > Pi THEN d - TwoPi
                  ELSE IF d < -Pi THEN d + TwoPi ELSE d

RECURSIVE TotalDelta(_, _)
TotalDelta(buf, i) ==
    IF i > Len(buf) THEN 0
    ELSE UnwrapDelta(buf[i] - buf[i - 1]) + TotalDelta(buf, i + 1)

\* BearingDetected that accepts every net rotation
BearingDetected_any(total_delta) == TRUE

\* the net-rotation threshold of _eval_bearing
BearingDetected(total_delta) == Abs(total_delta) >= BEARING_ANGLE_RATE_MIN

EvalBearing(s, hand, t) ==
    LET dx == hand.landmarks.middle_mcp[1] - hand.landmarks.wrist[1]
        dy == hand.landmarks.middle_mcp[2] - hand.landmarks.wrist[2]
        length == Hypot(dx, dy)
    IN
    IF length < 10 THEN Return(s, None)
    ELSE
    LET s1 == [s EXCEPT !.angle_buf = DequeAppend(@, Atan2(dy, dx))] IN
    IF Len(s1.angle_buf) < 2 THEN Return(s1, None)
    ELSE
    LET total_delta == TotalDelta(s1.angle_buf, 2) IN
    IF ~BearingDetected(total_delta) THEN Return(s1, None)
    ELSE
    LET gesture   == IF total_delta > 0 THEN "bearing_cw" ELSE "bearing_ccw"
        intensity == Min(Round3(Abs(total_delta), 1047), 1000)
        s2 == [s1 EXCEPT !.state = IF gesture = "bearing_cw"
                                   THEN STATE_BEARING_CW
                                   ELSE STATE_BEARING_CCW]
    IN  IF ~CanEmit(s2, gesture, t) THEN Return(s2, None)
        ELSE Return(RecordEmit(s2, gesture, t),
                    <<[gesture |-> gesture, intensity |-> intensity]>>)

\* ClearTwoHand that keeps the tilt buffer
ClearTwoHand_keepTilt(s) == [s EXCEPT !.dist_buf = <<>>]

\* "Reset two-hand state" at the head of _eval_single_hand
ClearTwoHand(s) == [s EXCEPT !.dist_buf = <<>>, !.tilt_buf = <<>>]

\* SingleHandOutOfZone that resets the buffers but keeps the state
SingleHandOutOfZone_keepState(s) == Return(ResetBuffers(s), None)

\* the exit of _eval_single_hand when the palm is outside the activation zone
SingleHandOutOfZone(s) ==
    Return([ResetBuffers(s) EXCEPT !.state = STATE_IDLE], None)

\* EvalSingleHand that evaluates the first sample of a run as well
EvalSingleHand_fromFirstSample(s, hand, t) ==
    LET s1 == ClearTwoHand(s)
        palm_center == hand.palm_center
    IN
    IF ~InActivationZone(palm_center)
    THEN SingleHandOutOfZone(s1)
    ELSE
    LET s2 == [s1 EXCEPT !.palm_buf = DequeAppend(@, palm_center)]
        velocity == s2.palm_buf[Len(s2.palm_buf)][1] - s2.palm_buf[1][1]
        swipe_result == EvalSwipe(s2, velocity, t)
    IN  IF swipe_result.ret # None
        THEN Return([swipe_result.self EXCEPT !.angle_buf = <<>>],
                    swipe_result.ret)
        ELSE EvalBearing(swipe_result.self, hand, t)

EvalSingleHand(s, hand, t) ==
    LET s1 == ClearTwoHand(s)
        palm_center == hand.palm_center
    IN
    IF ~InActivationZone(palm_center)
    THEN SingleHandOutOfZone(s1)
    ELSE
    LET s2 == [s1 EXCEPT !.palm_buf = DequeAppend(@, palm_center)] IN
    IF Len(s2.palm_buf) < 2 THEN Return(s2, None)
    ELSE
    LET velocity == s2.palm_buf[Len(s2.palm_buf)][1] - s2.palm_buf[1][1]
        swipe_result == EvalSwipe(s2, velocity, t)
    IN  IF swipe_result.ret # None
        THEN Return([swipe_result.self EXCEPT !.angle_buf = <<>>],
                    swipe_result.ret)
        ELSE EvalBearing(swipe_result.self, hand, t)

\* NoHand that reports the idle event of the class docstring
NoHand_idle(s) ==
    Return([ResetBuffers(s) EXCEPT !.state = STATE_IDLE],
           <<[gesture |-> "idle"]>>)

\* the no-hand exits of update
NoHand(s) == Return([ResetBuffers(s) EXCEPT !.state = STATE_IDLE], None)

\* UpdateResult that takes only a frame of exactly two hands as two-handed
UpdateResult_exactlyTwo(s, hd, t) ==
    IF ~hd.detected THEN NoHand(s)
    ELSE IF hd.hand_count = 2 THEN EvalTwoHand(s, hd.hands[1], hd.hands[2], t)
    ELSE IF hd.hand_count >= 1 THEN EvalSingleHand(s, hd.hands[1], t)
    ELSE NoHand(s)

UpdateResult(s, hd, t) ==
    IF ~hd.detected THEN NoHand(s)
    ELSE IF hd.hand_count >= 2 THEN EvalTwoHand(s, hd.hands[1], hd.hands[2], t)
    ELSE IF hd.hand_count = 1 THEN EvalSingleHand(s, hd.hands[1], t)
    ELSE NoHand(s)

Init ==
    /\ state = STATE_IDLE
    /\ dist_buf = <<>> /\ palm_buf = <<>>
    /\ tilt_buf = <<>> /\ angle_buf = <<>>
    /\ swipe_frames_left = 0 /\ swipe_frames_right = 0
    /\ coast_dir = 0 /\ coast_frames = 0
    /\ cooldowns = <<>>
    /\ now = EpochStart
    /\ hand_data = EmptyResult
    /\ ret = None
    /\ emitted_at = <<>>
    /\ cam_frame = None /\ captured = 0 /\ last_processed = 0
    /\ last_hand_time = EpochStart /\ hand_timeout_sent = FALSE
    /\ status = "none" /\ outage_statuses = 0
    /\ handless_since = EpochStart /\ period_timeouts = 0
    /\ hand_detected = FALSE /\ active_gesture = "idle"
    /\ last_gesture_time = 0
    /\ sg_pending = None /\ sent_gesture = None
    /\ hb_pc = "sleep" /\ hb_wake_at = EpochStart + HEARTBEAT_INTERVAL
    /\ heartbeat_msg = None
    /\ clients = {}
    /\ conn = [c \in Connections |-> "none"]
    /\ bc_pc = [b \in Broadcasts |-> "idle"]
    /\ bc_pending = [b \in Broadcasts |-> {}]
    /\ bc_dead = [b \in Broadcasts |-> {}]
    /\ bc_sent = [b \in Broadcasts |-> {}]
    /\ bc_joined = [b \in Broadcasts |-> {}]

\* one call of update(hd), adv milliseconds after the previous one and not
\* later than limit
Update(hd, adv, limit) ==
    /\ now + adv <= limit
    /\ \E r \in {UpdateResult(Self, hd, now + adv)} :
        /\ state' = r.self.state
        /\ dist_buf' = r.self.dist_buf
        /\ palm_buf' = r.self.palm_buf
        /\ tilt_buf' = r.self.tilt_buf
        /\ angle_buf' = r.self.angle_buf
        /\ swipe_frames_left' = r.self.swipe_frames_left
        /\ swipe_frames_right' = r.self.swipe_frames_right
        /\ coast_dir' = r.self.coast_dir
        /\ coast_frames' = r.self.coast_frames
        /\ cooldowns' = r.self.cooldowns
        /\ ret' = r.ret
    /\ now' = now + adv
    /\ hand_data' = hd
    /\ emitted_at' =
          IF ret' = None THEN emitted_at
          ELSE [k \in DOMAIN emitted_at \cup {ret'[1].gesture} |->
                   IF k # ret'[1].gesture THEN emitted_at[k]
                   ELSE IF k \in DOMAIN emitted_at
                        THEN Append(emitted_at[k], now') ELSE <<now'>>]

\* update called by a host that does nothing else
Call(hd, adv, limit) == Update(hd, adv, limit) /\ UNCHANGED host_vars

Next == \E hd \in Observations, adv \in Advances : Call(hd, adv, MaxTime)

Spec == Init /\ [][Next]_vars

\* the same program, called for long enough that seven calls in a row fit
NextLong ==
    \E hd \in Observations, adv \in Advances : Call(hd, adv, MaxTimeLong)

SpecLong == Init /\ [][NextLong]_vars

\* two hands inside the zone, approaching and separating: the second palm
\* 0.10 to 0.18 and 0.40 away from the first, or no hand at all
ZoomFrames ==
    {Frame(TRUE, <<Hand(<<300, 500>>, Flat), Hand(<<300 + d, 500>>, Flat)>>) :
        d \in {100, 120, 140, 160, 180, 400}}
    \cup {EmptyResult}

NextZoom == \E hd \in ZoomFrames, adv \in Advances : Call(hd, adv, MaxTime)

SpecZoom == Init /\ [][NextZoom]_vars

\* hands on the corners of the activation zone and one unit outside them
ZoneFrames ==
    {Frame(TRUE, <<Hand(pc, Flat)>>) :
        pc \in {<<200, 150>>, <<199, 150>>, <<200, 149>>,
                <<800, 850>>, <<801, 850>>, <<800, 851>>}}
    \cup {Frame(TRUE, <<Hand(<<200, 150>>, Flat), Hand(<<801, 851>>, Flat)>>),
          Frame(TRUE, <<Hand(<<199, 150>>, Flat), Hand(<<800, 851>>, Flat)>>),
          EmptyResult}

NextZone == \E hd \in ZoneFrames, adv \in Advances : Call(hd, adv, MaxTime)

SpecZone == Init /\ [][NextZone]_vars

\* wrist->middle_mcp vectors on both sides of the atan2 seam and a quarter
\* turn away from it
SeamDirs == {<<-100, 14>>, <<-100, 4>>, <<-100, -4>>, <<-100, -14>>,
             <<0, 100>>, <<0, -100>>}

\* one hand held in place and turned across the seam, or no hand at all
SeamFrames ==
    {Frame(TRUE, <<Hand(<<400, 500>>, d)>>) : d \in SeamDirs}
    \cup {EmptyResult}

NextSeam == \E hd \in SeamFrames, adv \in Advances : Call(hd, adv, MaxTime)

SpecSeam == Init /\ [][NextSeam]_vars

\* one hand moving sideways inside the zone and stopping, or no hand at all
SwipeFrames ==
    {Frame(TRUE, <<Hand(<<x, 500>>, Flat)>>) : x \in {200, 300, 400}}
    \cup {Frame(TRUE, <<Hand(<<400, 500>>, Tilted)>>), EmptyResult}

NextSwipe ==
    \E hd \in SwipeFrames, adv \in Advances : Call(hd, adv, MaxTimeLong)

SpecSwipe == Init /\ [][NextSwipe]_vars

\* wrist->middle_mcp vectors of growing tilt: level, 0.02, 0.03 and 0.1 down,
\* and straight down
TiltDirs == {Flat, <<100, 2>>, <<100, 3>>, Tilted, <<0, 100>>}

\* two hands inside the zone, 0.1 apart, tilting together; one of them with
\* a segment too short to measure; or no hand at all
PitchFrames ==
    {Frame(TRUE, <<Hand(<<300, 500>>, d), Hand(<<400, 500>>, d)>>) :
        d \in TiltDirs}
    \cup {Frame(TRUE, <<Hand(<<300, 500>>, Tilted),
                        Hand(<<400, 500>>, Short)>>),
          EmptyResult}

NextPitch == \E hd \in PitchFrames, adv \in Advances : Call(hd, adv, MaxTime)

SpecPitch == Init /\ [][NextPitch]_vars

\* ---- camera_capture.py, main.py: the capture thread and the main loop ----
MaxFrames       == 3       \* frames the capture thread stores in a run
MaxLoopElapsed  == 10200   \* two hand timeouts fit in a run of the loop
MaxLoopTime     == EpochStart + MaxLoopElapsed
LoopAdvances    == {50, 1000}  \* an iteration takes 50 ms, or stalls for 1 s
CameraSleep     == 50      \* time.sleep(0.05) of the camera-down branch

\* the history counters count up to MaxCounted: 0, 1, ..., "that many or more"
MaxCounted == 2
CountUp(n) == IF n < MaxCounted THEN n + 1 ELSE n

\* a captured image, known by its number and by what the detector sees in it
CameraFrame(n, hd) == <<[seq |-> n, hd |-> hd]>>

\* what the camera shows in the short runs: nothing, or two hands 0.10 and
\* 0.12 apart
CameraScenes ==
    {EmptyResult,
     Frame(TRUE, <<Hand(<<300, 500>>, Flat), Hand(<<400, 500>>, Flat)>>),
     Frame(TRUE, <<Hand(<<300, 500>>, Flat), Hand(<<420, 500>>, Flat)>>)}

\* _capture_loop: grab and retrieve succeeded, the frame replaces _frame
CaptureStore(hd) ==
    /\ captured < MaxFrames
    /\ captured' = captured + 1
    /\ cam_frame' = CameraFrame(captured + 1, hd)
    /\ UNCHANGED <<recogniser_vars, loop_vars, server_vars,
                 broadcast_vars>>

\* _capture_loop: grab failed, _frame is set to None
CaptureFail ==
    /\ cam_frame # None
    /\ cam_frame' = None
    /\ UNCHANGED <<captured, recogniser_vars, loop_vars, server_vars,
                 broadcast_vars>>

\* HandTimeoutDue that does not look at hand_timeout_sent
HandTimeoutDue_repeat(elapsed, sent) == elapsed > HAND_TIMEOUT_SEC

\* the condition under which the loop sends hand_timeout
HandTimeoutDue(elapsed, sent) == elapsed > HAND_TIMEOUT_SEC /\ ~sent

\* the camera-down branch of the loop: status, sleep, continue
LoopCameraDown(limit) ==
    /\ now + CameraSleep <= limit
    /\ now' = now + CameraSleep
    /\ status' = "camera"
    /\ outage_statuses' = CountUp(outage_statuses)
    /\ UNCHANGED <<state, dist_buf, palm_buf, tilt_buf, angle_buf,
                   swipe_frames_left, swipe_frames_right, coast_dir,
                   coast_frames, cooldowns, hand_data, ret, emitted_at>>
    /\ UNCHANGED <<last_processed, last_hand_time, hand_timeout_sent,
                   handless_since, period_timeouts>>
    /\ UNCHANGED <<camera_vars, server_vars, broadcast_vars>>

\* the rest of the loop body for a frame f: detection, heartbeat state, hand
\* timeout, update, send_gesture
LoopProcess(f, adv, limit) ==
    LET hd == f.hd
        t  == now + adv
        due == HandTimeoutDue(t - last_hand_time, hand_timeout_sent)
    IN  /\ hand_detected' = hd.detected
        /\ IF hd.detected
           THEN /\ last_hand_time' = t
                /\ hand_timeout_sent' = FALSE
                /\ status' = "none"
                /\ handless_since' = t
                /\ period_timeouts' = 0
           ELSE /\ last_hand_time' = last_hand_time
                /\ hand_timeout_sent' = (hand_timeout_sent \/ due)
                /\ status' = IF due THEN "hand_timeout" ELSE "none"
                /\ handless_since' = handless_since
                /\ period_timeouts' =
                      IF due THEN CountUp(period_timeouts)
                      ELSE period_timeouts
        /\ Update(hd, adv, limit)
        /\ IF ret' # None
           THEN /\ active_gesture' = ret'[1].gesture
                /\ last_gesture_time' = now'
                /\ sent_gesture' =
                      <<[gesture |-> ret'[1].gesture, at |-> now']>>
           ELSE UNCHANGED <<active_gesture, last_gesture_time, sent_gesture>>
        /\ last_processed' = f.seq
        /\ outage_statuses' = 0
        /\ UNCHANGED <<sg_pending, hb_pc, hb_wake_at, heartbeat_msg>>
        /\ UNCHANGED <<camera_vars, broadcast_vars>>

\* one iteration of the while loop of run_camera_loop, frame being what
\* cam.get_frame() returned
LoopIteration(frame, adv, limit) ==
    IF frame = None THEN LoopCameraDown(limit)
    ELSE LoopProcess(frame[1], adv, limit)

\* the capture thread and the main loop running side by side
NextCamera ==
    \/ \E hd \in CameraScenes : CaptureStore(hd)
    \/ CaptureFail
    \/ \E adv \in Advances : LoopIteration(cam_frame, adv, MaxTime)

SpecCamera == Init /\ [][NextCamera]_vars

\* what get_frame returns in the long runs: no frame, a frame without a
\* hand, a frame with one hand held still
TimeoutFrames ==
    {None, CameraFrame(1, EmptyResult),
     CameraFrame(1, Frame(TRUE, <<Hand(<<400, 500>>, Flat)>>))}

NextTimeout ==
    \E frame \in TimeoutFrames, adv \in LoopAdvances :
        LoopIteration(frame, adv, MaxLoopTime)

SpecTimeout == Init /\ [][NextTimeout]_vars

\* ---- websocket_server.py: send_gesture against the heartbeat loop ----
MaxServerElapsed == 2500   \* a run of the server lasts this long
MaxServerTime    == EpochStart + MaxServerElapsed
ClockStep        == 250    \* the clock is looked at every quarter second
ActiveResetAfter == 1000   \* "Auto-reset gesture label after 1 s"
SentGestures     == {"zoom_in", "pan_left"}

\* time passes while neither thread runs
Tick ==
    /\ now + ClockStep <= MaxServerTime
    /\ now' = now + ClockStep
    /\ UNCHANGED <<state, dist_buf, palm_buf, tilt_buf, angle_buf,
                   swipe_frames_left, swipe_frames_right, coast_dir,
                   coast_frames, cooldowns, hand_data, ret, emitted_at>>
    /\ UNCHANGED host_vars

\* send_gesture up to and including the write of active_gesture
SendGestureLabel(g) ==
    /\ sg_pending = None
    /\ sg_pending' = <<[gesture |-> g, timestamp |-> now]>>
    /\ active_gesture' = g
    /\ UNCHANGED <<hand_detected, last_gesture_time, sent_gesture, hb_pc,
                   hb_wake_at, heartbeat_msg>>
    /\ UNCHANGED <<recogniser_vars, camera_vars, loop_vars, broadcast_vars>>

\* the rest of send_gesture: the write of _last_gesture_time, the broadcast
SendGestureStamp ==
    /\ sg_pending # None
    /\ last_gesture_time' = now
    /\ sent_gesture' = <<[gesture |-> sg_pending[1].gesture, at |-> now]>>
    /\ sg_pending' = None
    /\ UNCHANGED <<hand_detected, active_gesture, hb_pc, hb_wake_at,
                   heartbeat_msg>>
    /\ UNCHANGED <<recogniser_vars, camera_vars, loop_vars, broadcast_vars>>

\* _heartbeat_loop: the sleep is over, the age of the last gesture is tested
HeartbeatCheck ==
    /\ hb_pc = "sleep" /\ now >= hb_wake_at
    /\ hb_pc' = IF now - last_gesture_time > ActiveResetAfter
                THEN "reset" ELSE "send"
    /\ UNCHANGED <<hand_detected, active_gesture, last_gesture_time,
                   sg_pending, sent_gesture, hb_wake_at, heartbeat_msg>>
    /\ UNCHANGED <<recogniser_vars, camera_vars, loop_vars, broadcast_vars>>

\* _heartbeat_loop: self.active_gesture = "idle"
HeartbeatReset ==
    /\ hb_pc = "reset"
    /\ active_gesture' = "idle"
    /\ hb_pc' = "send"
    /\ UNCHANGED <<hand_detected, last_gesture_time, sg_pending,
                   sent_gesture, hb_wake_at, heartbeat_msg>>
    /\ UNCHANGED <<recogniser_vars, camera_vars, loop_vars, broadcast_vars>>

\* _heartbeat_loop: the message is built and broadcast, the loop sleeps
HeartbeatSend ==
    /\ hb_pc = "send"
    /\ heartbeat_msg' = <<[hand_detected  |-> hand_detected,
                           active_gesture |-> active_gesture,
                           timestamp      |-> now]>>
    /\ hb_pc' = "sleep"
    /\ hb_wake_at' = now + HEARTBEAT_INTERVAL
    /\ UNCHANGED <<hand_detected, active_gesture, last_gesture_time,
                   sg_pending, sent_gesture>>
    /\ UNCHANGED <<recogniser_vars, camera_vars, loop_vars, broadcast_vars>>

\* the thread that calls send_gesture and the heartbeat loop, interleaved
NextServer ==
    \/ Tick
    \/ \E g \in SentGestures : SendGestureLabel(g)
    \/ SendGestureStamp
    \/ HeartbeatCheck
    \/ HeartbeatReset
    \/ HeartbeatSend

SpecServer == Init /\ [][NextServer]_vars

\* ---- the client set: _handler against _async_broadcast ------------------
\* All of these run on the event loop and interleave at their awaits only;
\* broadcast itself runs on the main thread and only reads _clients.

\* _handler up to its await: a new connection joins the set.  A connection
\* object connects once.
HandlerConnect(ws) ==
    /\ conn[ws] = "none"
    /\ conn' = [conn EXCEPT ![ws] = "open"]
    /\ clients' = clients \cup {ws}
    /\ bc_joined' = [b \in Broadcasts |->
                        IF bc_pc[b] = "sending" THEN bc_joined[b] \cup {ws}
                        ELSE bc_joined[b]]
    /\ UNCHANGED <<bc_pc, bc_pending, bc_dead, bc_sent>>
    /\ UNCHANGED <<recogniser_vars, camera_vars, loop_vars, server_vars>>

\* the peer goes away: wait_closed is over, _handler has not run on yet
ConnectionClosed(ws) ==
    /\ conn[ws] = "open"
    /\ conn' = [conn EXCEPT ![ws] = "closed"]
    /\ UNCHANGED <<clients, bc_pc, bc_pending, bc_dead, bc_sent, bc_joined>>
    /\ UNCHANGED <<recogniser_vars, camera_vars, loop_vars, server_vars>>

\* the finally block of _handler
HandlerFinally(ws) ==
    /\ conn[ws] = "closed"
    /\ conn' = [conn EXCEPT ![ws] = "gone"]
    /\ clients' = clients \ {ws}
    /\ UNCHANGED <<bc_pc, bc_pending, bc_dead, bc_sent, bc_joined>>
    /\ UNCHANGED <<recogniser_vars, camera_vars, loop_vars, server_vars>>

\* broadcast, called by the main loop: schedules the coroutine unless there
\* is no client (a set with a client implies the loop is running)
Broadcast ==
    /\ bc_pc["main"] = "idle"
    /\ clients # {}
    /\ bc_pc' = [bc_pc EXCEPT !["main"] = "scheduled"]
    /\ UNCHANGED <<clients, conn, bc_pending, bc_dead, bc_sent, bc_joined>>
    /\ UNCHANGED <<recogniser_vars, camera_vars, loop_vars, server_vars>>

\* _async_broadcast up to its first await: returns if there is no client,
\* else copies the set.  The heartbeat loop calls it directly.
AsyncBroadcastBegin(b) ==
    /\ bc_pc[b] = IF b = "main" THEN "scheduled" ELSE "idle"
    /\ b = "heartbeat" => clients # {}
    /\ IF clients = {}
       THEN /\ bc_pc' = [bc_pc EXCEPT ![b] = "idle"]
            /\ UNCHANGED <<bc_pending, bc_dead, bc_sent, bc_joined>>
       ELSE /\ bc_pc' = [bc_pc EXCEPT ![b] = "sending"]
            /\ bc_pending' = [bc_pending EXCEPT ![b] = clients]
            /\ bc_dead' = [bc_dead EXCEPT ![b] = {}]
            /\ bc_sent' = [bc_sent EXCEPT ![b] = {}]
            /\ bc_joined' = [bc_joined EXCEPT ![b] = {}]
    /\ UNCHANGED <<clients, conn>>
    /\ UNCHANGED <<recogniser_vars, camera_vars, loop_vars, server_vars>>

\* one turn of the for loop: the send to ws comes back, with or without an
\* exception; a connection that is not open always raises
AsyncBroadcastSend(b, ws, raised) ==
    /\ bc_pc[b] = "sending"
    /\ ws \in bc_pending[b]
    /\ conn[ws] # "open" => raised
    /\ bc_pending' = [bc_pending EXCEPT ![b] = @ \ {ws}]
    /\ bc_dead' = [bc_dead EXCEPT ![b] = IF raised THEN @ \cup {ws} ELSE @]
    /\ bc_sent' = [bc_sent EXCEPT ![b] = IF raised THEN @ ELSE @ \cup {ws}]
    /\ UNCHANGED <<clients, conn, bc_pc, bc_joined>>
    /\ UNCHANGED <<recogniser_vars, camera_vars, loop_vars, server_vars>>

\* RemoveDead that binds _clients to what is left of the copy
RemoveDead_fromCopy(cl, copy, dead) == copy \ dead

\* self._clients -= dead: the set itself, as it is now, loses the dead;
\* copy is what the loop iterated over
RemoveDead(cl, copy, dead) == cl \ dead

\* the last line of _async_broadcast, after the loop
AsyncBroadcastFinish(b) ==
    /\ bc_pc[b] = "sending"
    /\ bc_pending[b] = {}
    /\ clients' = RemoveDead(clients, bc_sent[b] \cup bc_dead[b], bc_dead[b])
    /\ bc_pc' = [bc_pc EXCEPT ![b] = "idle"]
    /\ UNCHANGED <<conn, bc_pending, bc_dead, bc_sent, bc_joined>>
    /\ UNCHANGED <<recogniser_vars, camera_vars, loop_vars, server_vars>>

NextBroadcast ==
    \/ \E ws \in Connections : HandlerConnect(ws)
    \/ \E ws \in Connections : ConnectionClosed(ws)
    \/ \E ws \in Connections : HandlerFinally(ws)
    \/ Broadcast
    \/ \E b \in Broadcasts : AsyncBroadcastBegin(b)
    \/ \E b \in Broadcasts, ws \in Connections, raised \in BOOLEAN :
           AsyncBroadcastSend(b, ws, raised)
    \/ \E b \in Broadcasts : AsyncBroadcastFinish(b)

SpecBroadcast == Init /\ [][NextBroadcast]_vars

\* ---- vocabulary of the properties ---------------------------------------
Kinds == {"zoom_in", "zoom_out", "pan_left", "pan_right",
          "pitch_up", "pitch_down", "bearing_cw", "bearing_ccw"}

\* the category interval of a kind, in ms
Interval(k) ==
    IF k \in {"zoom_in", "zoom_out", "pan_left", "pan_right"} THEN 80 ELSE 50

StateOf(k) ==
    CASE k \in {"zoom_in", "zoom_out"} -> "zoom"
      [] k = "pan_left"  -> "swipe_left"
      [] k = "pan_right" -> "swipe_right"
      [] OTHER           -> k

\* the latest call returned an event of kind k
Emitted(k) == ret # None /\ ret[1].gesture = k

\* the latest call saw no hand
NoHandSeen == ~hand_data.detected \/ hand_data.hand_count = 0
OneHandSeen == hand_data.detected /\ hand_data.hand_count = 1
TwoHandSeen == hand_data.detected /\ hand_data.hand_count >= 2

\* the latest call was evaluated: its hand(s) passed the activation gate
OneHandEvaluated ==
    OneHandSeen /\ InActivationZone(hand_data.hands[1].palm_center)
TwoHandEvaluated ==
    /\ TwoHandSeen
    /\ \/ InActivationZone(hand_data.hands[1].palm_center)
       \/ InActivationZone(hand_data.hands[2].palm_center)

SegmentLength(hand) ==
    Hypot(hand.landmarks.middle_mcp[1] - hand.landmarks.wrist[1],
          hand.landmarks.middle_mcp[2] - hand.landmarks.wrist[2])

\* the latest call classified its frame as a gesture of kind k (whether or
\* not the cooldown gate let the event out), read off the buffers and
\* counters it left behind
ZoomCandidate(k) ==
    /\ k \in {"zoom_in", "zoom_out"}
    /\ TwoHandEvaluated /\ Len(dist_buf) >= 2
    /\ Abs(WindowRate(dist_buf)) >= ZOOM_DIST_RATE_MIN
    /\ k = IF WindowRate(dist_buf) > 0 THEN "zoom_out" ELSE "zoom_in"

PitchCandidate(k) ==
    /\ k \in {"pitch_up", "pitch_down"}
    /\ TwoHandEvaluated /\ Len(dist_buf) >= 2
    /\ Abs(WindowRate(dist_buf)) < ZOOM_DIST_RATE_MIN
    /\ Len(tilt_buf) >= 2
    /\ Abs(WindowRate(tilt_buf)) >= PITCH_TILT_RATE_MIN
    /\ k = IF WindowRate(tilt_buf) < 0 THEN "pitch_up" ELSE "pitch_down"

SwipeCandidate(k) ==
    /\ k \in {"pan_left", "pan_right"}
    /\ OneHandEvaluated
    /\ \/ k = "pan_left"  /\ swipe_frames_left >= SWIPE_MIN_FRAMES
       \/ k = "pan_right" /\ swipe_frames_right >= SWIPE_MIN_FRAMES

BearingCandidate(k) ==
    /\ k \in {"bearing_cw", "bearing_ccw"}
    /\ OneHandEvaluated /\ Len(palm_buf) >= 2
    /\ Len(angle_buf) >= 2
    /\ SegmentLength(hand_data.hands[1]) >= 10
    /\ Abs(TotalDelta(angle_buf, 2)) >= BEARING_ANGLE_RATE_MIN
    /\ k = IF TotalDelta(angle_buf, 2) > 0 THEN "bearing_cw" ELSE "bearing_ccw"

Candidate(k) ==
    ZoomCandidate(k) \/ PitchCandidate(k) \/ SwipeCandidate(k)
        \/ BearingCandidate(k)

AllBuffersEmpty ==
    dist_buf = <<>> /\ palm_buf = <<>> /\ tilt_buf = <<>> /\ angle_buf = <<>>

\* ---- properties ---------------------------------------------------------

\* C1: every call of update returns nothing or exactly one event, whose kind
\* is one of the eight gesture kinds; an event of kind idle is never returned.
C1_ReturnsKnownKind ==
    /\ Len(ret) <= 1
    /\ \A i \in 1..Len(ret) : ret[i].gesture \in Kinds \ {"idle"}

\* an event is returned by a call made after another kind had been returned
C1_Witness ==
    /\ Len(ret) = 1 /\ ret[1].gesture \in Kinds
    /\ Cardinality(DOMAIN emitted_at) >= 2

\* C2: two successive calls that both return kind k are at least the category
\* interval of k apart (80 ms zoom/pan, 50 ms pitch/bearing), and an event is
\* returned only by a call whose own frame classifies as that kind (a
\* suppressed candidate is not delivered by a later call).
C2_MinGapBetweenSameKind ==
    /\ \A k \in DOMAIN emitted_at :
          \A i \in 2..Len(emitted_at[k]) :
              emitted_at[k][i] - emitted_at[k][i - 1] >= Interval(k)
    /\ \A k \in Kinds : Emitted(k) => Candidate(k)

\* some kind has been returned twice, and a candidate was swallowed in a call
\* made between the two
C2_Witness ==
    \E k \in Kinds :
        /\ Emitted(k)
        /\ Len(emitted_at[k]) >= 2
        /\ k \in {"zoom_in", "zoom_out"}
        /\ Len(dist_buf) >= 4
        /\ \A i \in 2..Len(dist_buf) : dist_buf[i] = dist_buf[2]

\* C3: the cooldown gate never over-suppresses: a call whose frame classifies
\* as kind k returns the event of kind k whenever k was never returned before
\* or at least the category interval (exactly the interval included) has
\* passed since k was last returned.
C3_GateNeverOverSuppresses ==
    [][\A k \in Kinds :
          (/\ Candidate(k)'
           /\ \/ k \notin DOMAIN emitted_at
              \/ now' - emitted_at[k][Len(emitted_at[k])] >= Interval(k))
          => Emitted(k)']_vars

\* three qualifying zoom_in frames in a row: the first is returned, the second
\* (inside the window) is not, the third, exactly 80 ms after the first, is
C3_Witness ==
    /\ Emitted("zoom_in")
    /\ dist_buf = <<120, 100, 100, 100>>
    /\ Len(emitted_at["zoom_in"]) = 2
    /\ emitted_at["zoom_in"][2] - emitted_at["zoom_in"][1] = 80

\* C4: an update whose observation has detected = false or hand_count 0
\* returns nothing and leaves the four buffers empty, both swipe counters 0
\* and the state Idle, whatever the state before and however often repeated.
C4_NoHandResets ==
    NoHandSeen =>
        /\ ret = None
        /\ AllBuffersEmpty
        /\ swipe_frames_left = 0 /\ swipe_frames_right = 0
        /\ state = STATE_IDLE

\* a no-hand call made after gestures had been recognised
C4_Witness ==
    /\ NoHandSeen
    /\ "pan_right" \in DOMAIN emitted_at
    /\ now - emitted_at["pan_right"][1] <= 50

\* the kind of evaluation a frame is routed to
RouteOf(hd) ==
    IF ~hd.detected \/ hd.hand_count = 0 THEN "none"
    ELSE IF hd.hand_count >= 2 THEN "two" ELSE "one"

\* a frame with a hand that passes the activation gate
InZoneFrame(hd) ==
    \/ RouteOf(hd) = "one" /\ InActivationZone(hd.hands[1].palm_center)
    \/ /\ RouteOf(hd) = "two"
       /\ \/ InActivationZone(hd.hands[1].palm_center)
          \/ InActivationZone(hd.hands[2].palm_center)

\* C5: the first update with an in-zone hand that follows a no-hand update, a
\* single-hand out-of-zone update, a two-hand update with neither palm in the
\* zone, or a change between one-hand and two-hand input returns nothing, and
\* the buffer of its family then holds exactly one sample.
C5_FirstSampleReturnsNothing ==
    [][(/\ InZoneFrame(hand_data')
        /\ \/ ~InZoneFrame(hand_data)
           \/ RouteOf(hand_data) # RouteOf(hand_data'))
       => /\ ret' = None
          /\ RouteOf(hand_data') = "one" => Len(palm_buf') = 1
          /\ RouteOf(hand_data') = "two" => Len(dist_buf') = 1]_vars

\* the first single-hand frame after a two-hand episode that had reached Zoom
C5_Witness ==
    /\ OneHandEvaluated
    /\ state = STATE_ZOOM
    /\ Len(palm_buf) = 1
    /\ ret = None

\* C6: after every update at most one buffer family is populated: a non-empty
\* distance or tilt buffer means empty palm and angle buffers and both swipe
\* counters 0; a non-empty palm or angle buffer means empty distance and tilt
\* buffers.
C6_OneFamilyPopulated ==
    /\ (dist_buf # <<>> \/ tilt_buf # <<>>) =>
          /\ palm_buf = <<>> /\ angle_buf = <<>>
          /\ swipe_frames_left = 0 /\ swipe_frames_right = 0
    /\ (palm_buf # <<>> \/ angle_buf # <<>>) =>
          dist_buf = <<>> /\ tilt_buf = <<>>

\* single-hand buffers in use after the two-hand buffers had held a pitch
C6_Witness ==
    /\ Len(palm_buf) >= 2 /\ angle_buf # <<>>
    /\ \E k \in {"pitch_up", "pitch_down"} : k \in DOMAIN emitted_at

\* one call's effect on a rolling buffer: untouched, cleared, or one sample
\* appended with the oldest dropped when the buffer was full
FifoStep(old, new) ==
    \/ new = old
    \/ new = <<>>
    \/ /\ new # <<>>
       /\ new = Append(IF Len(old) >= SMOOTHING_WINDOW THEN Tail(old) ELSE old,
                       new[Len(new)])

\* C7: none of the four buffers ever holds more than smoothing_window samples,
\* and a call that appends to a full buffer drops exactly the oldest sample
\* and keeps the others in arrival order.
C7_BuffersBounded ==
    [][/\ Len(dist_buf') <= SMOOTHING_WINDOW
       /\ Len(palm_buf') <= SMOOTHING_WINDOW
       /\ Len(tilt_buf') <= SMOOTHING_WINDOW
       /\ Len(angle_buf') <= SMOOTHING_WINDOW
       /\ FifoStep(dist_buf, dist_buf') /\ FifoStep(palm_buf, palm_buf')
       /\ FifoStep(tilt_buf, tilt_buf') /\ FifoStep(angle_buf, angle_buf')]_vars

\* a full angle buffer at the seventh call in a row (30 ms apart) when the
\* third had already returned a bearing event: the angles of calls 2..7 were
\* appended and the one of call 2 has been dropped
C7_Witness ==
    /\ Len(angle_buf) = SMOOTHING_WINDOW /\ Len(palm_buf) = SMOOTHING_WINDOW
    /\ now = EpochStart + 210
    /\ "bearing_cw" \in DOMAIN emitted_at
    /\ emitted_at["bearing_cw"][1] = EpochStart + 90

\* the latest call confirmed a swipe direction: its counter has reached
\* SWIPE_MIN_FRAMES
SwipeConfirmedNow ==
    /\ OneHandEvaluated
    /\ \/ swipe_frames_left >= SWIPE_MIN_FRAMES
       \/ swipe_frames_right >= SWIPE_MIN_FRAMES

\* C8: whenever a single-hand update confirms a swipe direction, the angle
\* buffer is empty after that call and the call returns no bearing event,
\* also when the pan event itself is held back by the cooldown gate.
C8_ConfirmedSwipeClearsAngles ==
    SwipeConfirmedNow =>
        /\ angle_buf = <<>>
        /\ ~Emitted("bearing_cw") /\ ~Emitted("bearing_ccw")

\* C9: in every family (zoom, pitch, swipe, bearing), a call that classifies a
\* gesture whose event the cooldown gate holds back leaves the state of the
\* classified gesture.
C9_StateSetWhenSuppressed ==
    \A k \in Kinds : (Candidate(k) /\ ~Emitted(k)) => state = StateOf(k)

\* C10: after an update whose candidate event was held back by the cooldown
\* gate, the four buffers and both swipe counters are what the same call
\* would have left had the gate let it pass (the same call on an empty
\* cooldown table), and the cooldown table is unchanged.
C10_SuppressionOnlyGatesOutput ==
    [][(\E k \in Kinds : Candidate(k)' /\ ~Emitted(k)') =>
          LET pass == UpdateResult([Self EXCEPT !.cooldowns = <<>>],
                                   hand_data', now').self
          IN  /\ dist_buf' = pass.dist_buf /\ palm_buf' = pass.palm_buf
              /\ tilt_buf' = pass.tilt_buf /\ angle_buf' = pass.angle_buf
              /\ swipe_frames_left' = pass.swipe_frames_left
              /\ swipe_frames_right' = pass.swipe_frames_right
              /\ cooldowns' = cooldowns]_vars

\* C11: a two-hand call whose distance buffer holds at least two samples
\* with |newest - oldest| >= ZOOM_DIST_RATE_MIN returns a zoom event or
\* nothing, never a pitch event; a pitch event is returned only by a two-hand
\* call whose distance rate is below ZOOM_DIST_RATE_MIN.
C11_ZoomBeforePitch ==
    /\ (/\ TwoHandSeen /\ Len(dist_buf) >= 2
        /\ Abs(dist_buf[Len(dist_buf)] - dist_buf[1]) >= ZOOM_DIST_RATE_MIN)
          => (ret = None \/ ret[1].gesture \in {"zoom_in", "zoom_out"})
    /\ \A k \in {"pitch_up", "pitch_down"} :
          Emitted(k) =>
              /\ TwoHandSeen /\ Len(dist_buf) >= 2
              /\ Abs(dist_buf[Len(dist_buf)] - dist_buf[1])
                     < ZOOM_DIST_RATE_MIN

\* a zoom event is returned by a call whose tilt window moved enough for a
\* pitch as well
C11_Witness ==
    /\ Emitted("zoom_out")
    /\ Len(tilt_buf) >= 2
    /\ Abs(WindowRate(tilt_buf)) >= PITCH_TILT_RATE_MIN

\* the window distance rate left by the latest call, and whether the window
\* starts at 0.10 and grows by at least 0.02 per buffered frame
C12_Rate == dist_buf[Len(dist_buf)] - dist_buf[1]
C12_GrowingFrom010 ==
    /\ TwoHandEvaluated /\ Len(dist_buf) >= 2 /\ dist_buf[1] = 100
    /\ \A i \in 1..(Len(dist_buf) - 1) : dist_buf[i + 1] >= dist_buf[i] + 20
    /\ \A h \in {hand_data.hands[1], hand_data.hands[2]} :
          InActivationZone(h.palm_center)

\* zoom_out for a positive rate, zoom_in for a negative one
C12_Direction ==
    \A k \in {"zoom_in", "zoom_out"} :
        Emitted(k) => /\ (k = "zoom_out") <=> (C12_Rate > 0)
                      /\ (k = "zoom_in") <=> (C12_Rate < 0)

\* a window growing from 0.10 has yielded zoom_out: by its second call, and
\* afterwards by this call or by one less than a cooldown ago
C12_GrowthYieldsZoomOut ==
    C12_GrowingFrom010 =>
        /\ state = STATE_ZOOM
        /\ "zoom_out" \in DOMAIN emitted_at
        /\ Len(dist_buf) = 2 => Emitted("zoom_out")
        /\ \/ Emitted("zoom_out")
           \/ /\ ret = None
              /\ now - emitted_at["zoom_out"][Len(emitted_at["zoom_out"])]
                    < GESTURE_COOLDOWN_MS

C14_SingleHandOutOfZoneResets ==
    [][(OneHandSeen' /\ ~OneHandEvaluated') =>
          /\ ret' = None
          /\ dist_buf' = <<>> /\ palm_buf' = <<>>
          /\ tilt_buf' = <<>> /\ angle_buf' = <<>>
          /\ swipe_frames_left' = 0 /\ swipe_frames_right' = 0
          /\ state' = STATE_IDLE
          /\ cooldowns' = cooldowns]_vars

\* a single hand outside the zone, after a pan event whose cooldown entry is
\* still in the table
C14_Witness ==
    /\ OneHandSeen /\ ~OneHandEvaluated
    /\ state = STATE_IDLE /\ AllBuffersEmpty
    /\ "pan_right" \in DOMAIN cooldowns

\* the latest call saw no hand, or hands that were all outside the zone
OutOfPlay ==
    \/ NoHandSeen
    \/ OneHandSeen /\ ~OneHandEvaluated
    \/ TwoHandSeen /\ ~TwoHandEvaluated

\* C15 as stated: after a call with no hand or with the hands outside the
\* zone the buffers are empty, the counters zero and the cooldown table
\* empty.
C15_CooldownsReset ==
    OutOfPlay =>
        /\ AllBuffersEmpty
        /\ swipe_frames_left = 0 /\ swipe_frames_right = 0
        /\ cooldowns = <<>>

\* C15: after every call in which no hand is detected or the hands are
\* outside the activation zone, all buffers are empty and the swipe
\* counters are zero; the cooldown table is what it was before the call.
C15_CooldownsKept ==
    [][OutOfPlay' =>
          /\ AllBuffersEmpty'
          /\ swipe_frames_left' = 0 /\ swipe_frames_right' = 0
          /\ cooldowns' = cooldowns]_vars

\* a no-hand call that left two kinds in the cooldown table
C15_Witness ==
    /\ NoHandSeen /\ AllBuffersEmpty
    /\ {"zoom_out", "bearing_cw"} \subseteq DOMAIN cooldowns

\* C16: after every call in which no hand is detected or the hands have left
\* the activation zone, in one-hand mode and in two-hand mode alike, the
\* state is idle.
C16_IdleWhenOutOfPlay == OutOfPlay => state = STATE_IDLE

\* (x, y) lies in the rectangle of the configuration, bounds included
C17_Inside(pc) ==
    /\ 200 <= pc[1] /\ pc[1] <= 800
    /\ 150 <= pc[2] /\ pc[2] <= 850

\* C17: the activation-zone test has inclusive bounds: a palm centre (x, y)
\* is evaluated exactly when x_min <= x <= x_max and y_min <= y <= y_max, so
\* a palm exactly at (x_min, y_min) is buffered and a single-hand palm one
\* unit below x_min forces the state to idle.
C17_InclusiveBounds ==
    /\ OneHandSeen =>
          LET pc == hand_data.hands[1].palm_center IN
          /\ C17_Inside(pc) <=>
                (palm_buf # <<>> /\ palm_buf[Len(palm_buf)] = pc)
          /\ ~C17_Inside(pc) => (state = STATE_IDLE /\ palm_buf = <<>>)
    /\ TwoHandSeen =>
          ((\E i \in {1, 2} : C17_Inside(hand_data.hands[i].palm_center))
              <=> dist_buf # <<>>)

\* the palm is exactly at (x_min, y_min), was buffered and took part in a
\* leftward window from (x_max, y_max)
C17_Witness ==
    /\ OneHandSeen
    /\ hand_data.hands[1].palm_center = <<ACTIVATION_ZONE[1], ACTIVATION_ZONE[3]>>
    /\ palm_buf = <<<<800, 850>>, <<200, 150>>>>
    /\ swipe_frames_left = 1

\* the window velocity of the palm buffer: newest x minus oldest x
C18_Velocity(buf) == buf[Len(buf)][1] - buf[1][1]

\* C18: pan_left (pan_right) is returned only by a call in which the left
\* (right) counter has reached SWIPE_MIN_FRAMES; a counter is k > 0 after a
\* call only if that call was a single-hand in-zone call with window
\* velocity below -threshold (above +threshold) and the counter was k - 1
\* before it, so the call and the k - 1 calls before it all qualified; a
\* call with |velocity| <= threshold zeroes both counters and a call with
\* the opposite sign zeroes the other counter.
C18_SwipeNeedsConsecutiveFrames ==
    [][/\ Emitted("pan_left")' => swipe_frames_left' >= SWIPE_MIN_FRAMES
       /\ Emitted("pan_right")' => swipe_frames_right' >= SWIPE_MIN_FRAMES
       /\ swipe_frames_left' > 0 =>
            /\ OneHandEvaluated' /\ Len(palm_buf') >= 2
            /\ C18_Velocity(palm_buf') < -SWIPE_VELOCITY_THRESHOLD
            /\ swipe_frames_left' = swipe_frames_left + 1
       /\ swipe_frames_right' > 0 =>
            /\ OneHandEvaluated' /\ Len(palm_buf') >= 2
            /\ C18_Velocity(palm_buf') > SWIPE_VELOCITY_THRESHOLD
            /\ swipe_frames_right' = swipe_frames_right + 1
       /\ (OneHandEvaluated' /\ Len(palm_buf') >= 2) =>
            /\ Abs(C18_Velocity(palm_buf')) <= SWIPE_VELOCITY_THRESHOLD
                  => (swipe_frames_left' = 0 /\ swipe_frames_right' = 0)
            /\ C18_Velocity(palm_buf') > SWIPE_VELOCITY_THRESHOLD
                  => swipe_frames_left' = 0
            /\ C18_Velocity(palm_buf') < -SWIPE_VELOCITY_THRESHOLD
                  => swipe_frames_right' = 0]_vars

\* pan_left returned by the call that takes the left counter to
\* SWIPE_MIN_FRAMES
C18_Witness ==
    /\ Emitted("pan_left")
    /\ swipe_frames_left = SWIPE_MIN_FRAMES /\ swipe_frames_right = 0
    /\ Len(palm_buf) = SWIPE_MIN_FRAMES + 1

\* a raw delta brought back by a full turn when it is beyond half a turn
C19_Adjusted(d) ==
    IF d > 3142 THEN d - 6283 ELSE IF d < -3142 THEN d + 6283 ELSE d

\* the sum of the adjusted deltas of the consecutive pairs of buf
C19_NetRotation(buf) ==
    LET sum[i \in 1..Len(buf)] ==
            IF i = 1 THEN 0
            ELSE sum[i - 1] + C19_Adjusted(buf[i] - buf[i - 1])
    IN  sum[Len(buf)]

\* C19: the net rotation used by bearing detection is the sum over the
\* consecutive buffered angles of the delta adjusted by -2pi when it exceeds
\* pi and by +2pi when it is below -pi; every summed delta lies in
\* [-pi, pi], the direction of the bearing follows the sign of that sum, and
\* a buffer crossing the seam (3.0, 3.1, -3.1, -3.0 rad) sums to about
\* 0.28 rad, not about 6.2 rad.
C19_UnwrappedSum ==
    (OneHandEvaluated /\ Len(angle_buf) >= 2) =>
        /\ TotalDelta(angle_buf, 2) = C19_NetRotation(angle_buf)
        /\ \A i \in 2..Len(angle_buf) :
              /\ UnwrapDelta(angle_buf[i] - angle_buf[i - 1]) >= -3142
              /\ UnwrapDelta(angle_buf[i] - angle_buf[i - 1]) <= 3142
        /\ C19_NetRotation(angle_buf) >= BEARING_ANGLE_RATE_MIN
              => state = STATE_BEARING_CW
        /\ C19_NetRotation(angle_buf) <= -BEARING_ANGLE_RATE_MIN
              => state = STATE_BEARING_CCW
        /\ angle_buf = <<3003, 3102, -3102, -3003>> =>
              /\ TotalDelta(angle_buf, 2) >= 270
              /\ TotalDelta(angle_buf, 2) <= 290

\* the hand has turned across the seam and the call returns a clockwise
\* bearing of 0.277 / (pi / 3)
C19_Witness ==
    /\ angle_buf = <<3003, 3102, -3102, -3003>>
    /\ Emitted("bearing_cw") /\ ret[1].intensity = 265

\* the magnitude an event carries: the velocity of a pan, else the intensity
C20_Magnitude(e) ==
    IF e.gesture \in {"pan_left", "pan_right"} THEN e.velocity
    ELSE e.intensity

\* C20: the magnitude of every event returned by update lies in [0, 1], for
\* every kind, pan_left and pan_right included, whose magnitude is the
\* uncapped |window velocity| of palm positions that were all inside the
\* activation zone when buffered.
C20_MagnitudeInUnitInterval ==
    /\ ret # None =>
          (C20_Magnitude(ret[1]) >= 0 /\ C20_Magnitude(ret[1]) <= 1000)
    /\ \A k \in {"pan_left", "pan_right"} :
          Emitted(k) =>
              /\ ret[1].velocity = Abs(C18_Velocity(palm_buf))
              /\ \A i \in DOMAIN palm_buf : C17_Inside(palm_buf[i])

\* pan_right returned for a palm that crossed the whole width of the zone
C20_Witness ==
    /\ Emitted("pan_right")
    /\ ret[1].velocity = ACTIVATION_ZONE[2] - ACTIVATION_ZONE[1]

\* C21: the cooldown table changes only in a call that returns an event, and
\* then only the entry of the returned kind is written, with a timestamp not
\* smaller than its previous value; no call removes an entry or lowers a
\* timestamp.
C21_CooldownsOnlyGrow ==
    [][/\ DOMAIN cooldowns \subseteq DOMAIN cooldowns'
       /\ \A k \in DOMAIN cooldowns : cooldowns'[k] >= cooldowns[k]
       /\ cooldowns' # cooldowns => ret' # None
       /\ ret' # None =>
            /\ DOMAIN cooldowns' = DOMAIN cooldowns \cup {ret'[1].gesture}
            /\ cooldowns'[ret'[1].gesture] = now'
            /\ \A k \in DOMAIN cooldowns :
                  k # ret'[1].gesture => cooldowns'[k] = cooldowns[k]]_vars

\* zoom_out is returned a second time, over its own earlier entry and beside
\* the entry of another kind
C21_Witness ==
    /\ Emitted("zoom_out")
    /\ Len(emitted_at["zoom_out"]) >= 2
    /\ "zoom_in" \in DOMAIN cooldowns
    /\ cooldowns["zoom_in"] < cooldowns["zoom_out"]

\* C22: cooldowns are independent per kind: a call whose frame classifies as
\* kind k returns nothing for k exactly when k's own entry of the cooldown
\* table is less than k's category interval old, whatever the entries of the
\* other kinds; an event of one kind can follow an event of another kind in
\* the very next call.
C22_CooldownsPerKind ==
    [][\A k \in Kinds :
          Candidate(k)' =>
              (Emitted(k)' <=>
                  ~(/\ k \in DOMAIN cooldowns
                    /\ now' - cooldowns[k] < Interval(k)))]_vars

\* zoom_out is returned by the call right after the one that returned
\* zoom_in, 30 ms later
C22_Witness ==
    /\ Emitted("zoom_out")
    /\ "zoom_in" \in DOMAIN cooldowns
    /\ now - cooldowns["zoom_in"] = 30
    /\ Len(emitted_at["zoom_out"]) = 1

C24_Rate == tilt_buf[Len(tilt_buf)] - tilt_buf[1]

\* a pitch event needs two tilt samples and a rate of at least
\* PITCH_TILT_RATE_MIN; pitch_up for a negative rate, pitch_down for a
\* positive one
C24_PitchCondition ==
    \A k \in {"pitch_up", "pitch_down"} :
        Emitted(k) =>
            /\ Len(tilt_buf) >= 2
            /\ Abs(C24_Rate) >= PITCH_TILT_RATE_MIN
            /\ (k = "pitch_up") <=> (C24_Rate < 0)
            /\ (k = "pitch_down") <=> (C24_Rate > 0)

\* C24 as stated: the magnitude of a pitch event is exactly
\* min(|tilt_rate| / 0.3, 1.0)
C24_ExactMagnitude ==
    /\ C24_PitchCondition
    /\ \A k \in {"pitch_up", "pitch_down"} :
          Emitted(k) =>
              3 * ret[1].intensity =
                  (IF 10 * Abs(C24_Rate) <= 3000 THEN 10 * Abs(C24_Rate)
                   ELSE 3000)

\* C24: a pitch event is returned only when the tilt buffer holds at least
\* 2 samples and |newest - oldest tilt| >= PITCH_TILT_RATE_MIN; its kind is
\* pitch_up exactly when that rate is negative and pitch_down when it is
\* positive; its magnitude is min(|tilt_rate| / 0.3, 1.0) rounded to the
\* nearest thousandth.
C24_RoundedMagnitude ==
    /\ C24_PitchCondition
    /\ \A k \in {"pitch_up", "pitch_down"} :
          Emitted(k) =>
              IF 10 * Abs(C24_Rate) >= 3000 THEN ret[1].intensity = 1000
              ELSE 2 * Abs(3 * ret[1].intensity - 10 * Abs(C24_Rate)) <= 3

\* pitch_up returned for a tilt rate of -0.1, whose quotient by 0.3 is not a
\* whole number of thousandths
C24_Witness ==
    /\ Emitted("pitch_up")
    /\ C24_Rate = -100 /\ ret[1].intensity = 333

\* buf after one more sample x, the oldest dropped when the window is full
C25_Pushed(buf, x) ==
    IF Len(buf) < SMOOTHING_WINDOW THEN Append(buf, x)
    ELSE Append(Tail(buf), x)

\* dy / length of the wrist->middle_mcp segment of a hand
C25_Tilt(hand) ==
    DivRound((hand.landmarks.middle_mcp[2] - hand.landmarks.wrist[2]) * 1000,
             SegmentLength(hand))

\* C25: in an evaluated two-hand call the distance buffer gains one sample;
\* the tilt buffer gains one sample, the average of both hands' tilt, only
\* if both hands have a wrist->middle_mcp segment of length >= 0.01, and is
\* left unchanged if either segment is shorter.
C25_TiltNeedsBothHands ==
    [][TwoHandEvaluated' =>
          LET a == hand_data'.hands[1]
              b == hand_data'.hands[2]
          IN  /\ dist_buf' =
                    C25_Pushed(dist_buf,
                               Dist2d(a.palm_center, b.palm_center))
              /\ IF SegmentLength(a) >= 10 /\ SegmentLength(b) >= 10
                 THEN tilt_buf' =
                        C25_Pushed(tilt_buf,
                                   DivRound(C25_Tilt(a) + C25_Tilt(b), 2))
                 ELSE tilt_buf' = tilt_buf]_vars

\* a two-hand frame with one segment too short: the distance was buffered,
\* the tilt was not
C25_Witness ==
    /\ TwoHandEvaluated
    /\ SegmentLength(hand_data.hands[2]) < 10
    /\ Len(dist_buf) = 3 /\ tilt_buf = <<0, 100>>

\* a bearing event needs two angle samples and a net rotation of at least
\* BEARING_ANGLE_RATE_MIN; bearing_cw for a positive net rotation,
\* bearing_ccw for a negative one
C26_BearingCondition ==
    \A k \in {"bearing_cw", "bearing_ccw"} :
        Emitted(k)' =>
            /\ Len(angle_buf') >= 2
            /\ Abs(C19_NetRotation(angle_buf')) >= BEARING_ANGLE_RATE_MIN
            /\ (k = "bearing_cw") <=> (C19_NetRotation(angle_buf') > 0)
            /\ (k = "bearing_ccw") <=> (C19_NetRotation(angle_buf') < 0)

\* C26 as stated: every single-hand frame whose wrist->middle_mcp segment is
\* shorter than 0.01 returns nothing and leaves the angle buffer unchanged.
C26_ShortSegmentReturnsNothing ==
    [][/\ C26_BearingCondition
       /\ (OneHandSeen' /\ SegmentLength(hand_data'.hands[1]) < 10) =>
            (ret' = None /\ angle_buf' = angle_buf)]_vars

\* C26: a bearing event is returned only when the angle buffer holds at
\* least 2 samples and |total_delta| >= BEARING_ANGLE_RATE_MIN; its kind is
\* bearing_cw exactly when total_delta > 0 and bearing_ccw when it is
\* negative; a single-hand in-zone frame whose wrist->middle_mcp segment is
\* shorter than 0.01 never returns a bearing event: it returns nothing and
\* leaves the angle buffer unchanged, unless the call returns a pan event,
\* which empties the angle buffer.
C26_ShortSegmentNoBearing ==
    [][/\ C26_BearingCondition
       /\ (OneHandEvaluated' /\ SegmentLength(hand_data'.hands[1]) < 10) =>
            /\ ret' = None => angle_buf' = angle_buf
            /\ ret' # None =>
                 /\ ret'[1].gesture \in {"pan_left", "pan_right"}
                 /\ angle_buf' = <<>>]_vars

\* a frame with a segment too short to measure, after two angles had been
\* buffered: nothing is returned and the angles are still there
C26_Witness ==
    /\ OneHandEvaluated /\ SegmentLength(hand_data.hands[1]) < 10
    /\ ret = None /\ Len(angle_buf) = 2 /\ Len(palm_buf) = 4

\* the step is a loop iteration that passed a frame to update
FrameProcessed == now' # now /\ cam_frame # None

\* C27: the main loop passes every captured frame to update exactly once and
\* in capture order: the frame an iteration processes is the one stored
\* right after the frame processed before, never the same one again and
\* never a later one.
C27_EveryFrameOnceInOrder ==
    [][FrameProcessed => last_processed' = last_processed + 1]_vars

\* C29: while the camera is down the clients are notified once: one
\* camera=disconnected status per outage, not one per loop iteration.
C29_OneStatusPerOutage == outage_statuses <= 1

\* the step is a loop iteration that got a frame and found no hand in it
HandlessFrameProcessed ==
    now' # now /\ status' # "camera" /\ ~hand_data'.detected

\* C30: hand_timeout is sent at most once per continuous period without a
\* detected hand, and only by an iteration that finds the period longer than
\* HAND_TIMEOUT_SEC; a frame with a detected hand starts a new period, and
\* every period that a hand-less frame finds longer than the timeout has had
\* its one hand_timeout.
C30_HandTimeoutOncePerPeriod ==
    [][/\ (now' # now /\ status' = "hand_timeout") =>
            /\ ~hand_data'.detected
            /\ now' - handless_since > HAND_TIMEOUT_SEC
            /\ period_timeouts = 0 /\ period_timeouts' = 1
       /\ (HandlessFrameProcessed
           /\ now' - handless_since' > HAND_TIMEOUT_SEC) =>
            period_timeouts' = 1
       /\ (HandlessFrameProcessed
           /\ now' - handless_since' <= HAND_TIMEOUT_SEC) =>
            (period_timeouts' = 0 /\ status' = "none")]_vars

\* hand_timeout is sent for the second time: a hand was seen after the first
\* timeout and has now been missing for 50 ms more than HAND_TIMEOUT_SEC
C30_Witness ==
    /\ status = "hand_timeout"
    /\ handless_since > EpochStart + HAND_TIMEOUT_SEC
    /\ now - handless_since = HAND_TIMEOUT_SEC + 50
    /\ period_timeouts = 1

\* C28: while a gesture was sent through send_gesture less than 1 second
\* ago (and no other send_gesture call is under way), every heartbeat
\* reports that gesture as active_gesture, under any interleaving of the
\* thread calling send_gesture and the heartbeat loop.
C28_HeartbeatReportsRecentGesture ==
    [][(/\ hb_pc = "send" /\ hb_pc' = "sleep"
        /\ sg_pending = None /\ sent_gesture # None
        /\ now - sent_gesture[1].at < ActiveResetAfter)
          => heartbeat_msg'[1].active_gesture = sent_gesture[1].gesture]_vars

\* C32: the kind of a returned event is determined by the hand count of that
\* call: a call with hand_count >= 2 returns only zoom_in, zoom_out, pitch_up
\* or pitch_down and is evaluated on the first two hands (the distance it
\* buffers is the one between hands[0] and hands[1]); a call with hand_count 1
\* returns only pan_left, pan_right, bearing_cw or bearing_ccw; a call that
\* saw no hand returns nothing.
C32_KindFollowsHandCount ==
    /\ TwoHandSeen /\ ret # None =>
          ret[1].gesture \in {"zoom_in", "zoom_out", "pitch_up", "pitch_down"}
    /\ TwoHandEvaluated =>
          /\ dist_buf # <<>>
          /\ dist_buf[Len(dist_buf)] =
                Dist2d(hand_data.hands[1].palm_center,
                       hand_data.hands[2].palm_center)
    /\ OneHandSeen /\ ret # None =>
          ret[1].gesture \in
              {"pan_left", "pan_right", "bearing_cw", "bearing_ccw"}
    /\ NoHandSeen => ret = None

\* a frame with three hands returned a two-hand event, after a single-hand
\* call had returned a pan or a bearing
C32_Witness ==
    /\ hand_data.detected /\ hand_data.hand_count = 3
    /\ ret # None
    /\ ret[1].gesture \in {"zoom_in", "zoom_out", "pitch_up", "pitch_down"}
    /\ DOMAIN emitted_at \cap
          {"pan_left", "pan_right", "bearing_cw", "bearing_ccw"} # {}

\* C33: after every call of update the tilt buffer is no longer than the
\* distance buffer and the angle buffer is no longer than the palm buffer.
\* The palm buffer counts the in-zone single-hand frames in a row since the
\* last reset or mode switch (it is empty unless the latest call evaluated a
\* single hand, and such a call adds one sample, up to the window), and a
\* bearing is returned only when it holds three samples or more: never before
\* the third such frame.
C33_BuffersInStep ==
    [][/\ Len(tilt_buf') <= Len(dist_buf')
       /\ Len(angle_buf') <= Len(palm_buf')
       /\ ~OneHandEvaluated' => palm_buf' = <<>>
       /\ OneHandEvaluated' =>
             /\ Len(palm_buf') = Min(Len(palm_buf) + 1, SMOOTHING_WINDOW)
             /\ Len(angle_buf') <= Len(angle_buf) + 1
       /\ ret' # None /\ ret'[1].gesture \in {"bearing_cw", "bearing_ccw"} =>
             /\ OneHandEvaluated'
             /\ Len(palm_buf') >= 3
             /\ OneHandEvaluated /\ Len(palm_buf) >= 2
      ]_vars

\* a bearing is returned by the third single-hand frame after a two-hand
\* gesture: three palm samples, two angles
C33_Witness ==
    /\ ret # None /\ ret[1].gesture \in {"bearing_cw", "bearing_ccw"}
    /\ Len(palm_buf) = 3 /\ Len(angle_buf) = 2
    /\ DOMAIN emitted_at \cap
          {"zoom_in", "zoom_out", "pitch_up", "pitch_down"} # {}

\* C34: after every call of update the two swipe counters are non-negative
\* and at most one of them is greater than 0.
C34_OneSwipeCounter ==
    /\ swipe_frames_left >= 0 /\ swipe_frames_right >= 0
    /\ swipe_frames_left = 0 \/ swipe_frames_right = 0

\* the palm turns back: the left counter runs after the right counter had
\* confirmed a pan to the right
C34_Witness ==
    /\ OneHandEvaluated
    /\ swipe_frames_left >= 1
    /\ "pan_right" \in DOMAIN emitted_at

\* the step in which broadcast b completes
C31_Completes(b) == bc_pc[b] = "sending" /\ bc_pc'[b] = "idle"

\* C31 as stated: when a broadcast completes, every client whose send raised
\* during it is out of the client set, no client whose send succeeded has
\* been removed by it, and every client that connected while it was in
\* progress is in the set.
C31_JoinedStillInSet ==
    [][\A b \in Broadcasts :
          C31_Completes(b) =>
             /\ bc_dead[b] \cap clients' = {}
             /\ bc_sent[b] \cap clients \subseteq clients'
             /\ bc_joined[b] \subseteq clients'
      ]_vars

\* C31: when a broadcast completes, every client whose send raised during it
\* is out of the client set, and the broadcast itself has removed no client
\* whose send succeeded and no client that connected while it was in progress
\* (such a client is never among its dead); a client of either sort is
\* missing from the set only if something else removed it meanwhile.
C31_BroadcastRemovesOnlyDead ==
    [][\A b \in Broadcasts :
          C31_Completes(b) =>
             /\ bc_dead[b] \cap clients' = {}
             /\ bc_sent[b] \cap clients \subseteq clients'
             /\ bc_joined[b] \cap clients \subseteq clients'
             /\ bc_dead[b] \cap (bc_sent[b] \cup bc_joined[b]) = {}
             /\ clients' = clients \ bc_dead[b]
      ]_vars

\* a broadcast has completed with a send that raised, a send that succeeded
\* and a client that connected meanwhile; the first is out of the set, the
\* other two are in it
C31_Witness ==
    \E b \in Broadcasts :
        /\ bc_pc[b] = "idle"
        /\ bc_dead[b] # {} /\ bc_dead[b] \cap clients = {}
        /\ bc_sent[b] \cap clients # {}
        /\ bc_joined[b] \cap clients # {}

====
